---- MODULE Spec2Model ----
(***************************************************************************)
(* CentrifugeSrv (Grafana Live): the registry of open channels, the shared *)
(* transport connection and the background initialization of each channel. *)
(*                                                                         *)
(* Strings are sequences of one-character strings, so that the channel id  *)
(* is really built by concatenation.  JavaScript runs callbacks one at a   *)
(* time: every action below is one synchronous run (a call of getChannel,  *)
(* one continuation of initChannel after an await, the catch callback, a   *)
(* transport callback).                                                    *)
(***************************************************************************)
EXTENDS Naturals, Sequences, FiniteSets

VARIABLES
    open,             \* CentrifugeSrv.open: id -> channel instance
    channels,         \* every CentrifugeLiveChannel constructed so far
    connected,        \* centrifuge.isConnected()
    connectionState,  \* latest value of the BehaviorSubject
    connectionBlocker,\* "pending" or "resolved"
    afterDisconnect,  \* ids on which disconnect() ran since their last getChannel
    logged            \* channel ids of the publications onServerSideMessage logged

vars == <<open, channels, connected, connectionState, connectionBlocker,
          afterDisconnect, logged>>

\* Most CentrifugeLiveChannel instances one run constructs: over all the
\* addresses (Spec), and over one address asked for again and again (SpecSame).
MaxChannels == 2

MaxSame == 3

\* Most instances of a run whose scheduling is fair (SpecLive).
MaxLive == 2

----------------------------------------------------------------------------
\* LiveChannelScope and the addresses the callers use

DataSource == <<"d", "s">>
Plugin == <<"p", "l", "u", "g", "i", "n">>
Grafana == <<"g", "r", "a", "f", "a", "n", "a">>

LiveChannelScope == {DataSource, Plugin, Grafana}

\* a scope id that is no member of the enum (an unchecked cast at the caller)
UnknownScope == <<"x">>

Separator == <<"/">>

Addr(s, n, p) == [scopeId |-> s, namespace |-> n, path |-> p]

\* The addresses getChannel is called with.
Addresses ==
    { Addr(Grafana, <<"a">>, <<"a">>),        \* supported, config with canPublish
      Addr(Grafana, <<"a">>, <<"b">>),        \* supported, config without canPublish
      Addr(DataSource, <<"b">>, <<"a">>),     \* namespace without support
      Addr(Plugin, <<"a">>, <<>>),            \* empty path: no config
      Addr(DataSource, <<"a", "/", "b">>, <<"a">>),  \* separator in the namespace
      Addr(UnknownScope, <<"a">>, <<"a">>) }  \* invalid scope

\* The one address the callers of SpecSame use.
SameAddresses == { Addr(Grafana, <<"a">>, <<"a">>) }

\* The addresses the callers of SpecLive use: one whose initialization can
\* succeed and one whose namespace has no support.
LiveAddresses ==
    { Addr(Grafana, <<"a">>, <<"a">>), Addr(DataSource, <<"b">>, <<"a">>) }

\* a segment that is non-empty and free of the separator
WellFormed(seg) == Len(seg) > 0 /\ \A k \in 1..Len(seg) : seg[k] # "/"

Malformed(a) == ~WellFormed(a.namespace) \/ ~WellFormed(a.path)

\* the id without its separators
ChannelIdNoSeparator(scopeId, namespace, path) == scopeId \o namespace \o path

\* const id = `${scopeId}/${namespace}/${path}`
ChannelId(scopeId, namespace, path) ==
    scopeId \o Separator \o namespace \o Separator \o path

IdOf(a) == ChannelId(a.scopeId, a.namespace, a.path)

Ids == { IdOf(a) : a \in Addresses }

\* this.scopes[scopeId]
scopes(scopeId) == scopeId \in LiveChannelScope

\* scope.getChannelSupport(namespace): is there support for the namespace
getChannelSupport(namespace) == namespace = <<"a">>

\* support.getChannelConfig(path): "none", or the config and whether it
\* defines canPublish
getChannelConfig(path) ==
    IF path = <<"a">> THEN "canPublish"
    ELSE IF path = <<"b">> THEN "readOnly"
    ELSE "none"

----------------------------------------------------------------------------
\* CentrifugeLiveChannel

Pending == "pending"
Connected == "connected"
Disconnected == "disconnected"
Shutdown == "shutdown"
Invalid == "invalid"

LiveChannelConnectionState == {Pending, Connected, Disconnected, Shutdown, Invalid}

\* new CentrifugeLiveChannel(id, scopeId, namespace, path), and the position
\* of its initChannel call (pc).  canPublish records what config.canPublish()
\* answered; awaitsConnect holds while the channel was created with the
\* transport not connected and no connect event has fired since.
NewChannel(a) ==
    [ id |-> IdOf(a), scope |-> a.scopeId, namespace |-> a.namespace, path |-> a.path,
      state |-> Pending, error |-> FALSE, config |-> "none",
      subscription |-> FALSE, publish |-> FALSE,
      pc |-> "getChannelSupport",
      canPublish |-> "unevaluated",
      awaitsConnect |-> ~connected ]

Instances == 1..Len(channels)

\* channel.disconnect() on the record: Shutdown, subscription released
disconnect(c) == [c EXCEPT !.state = Shutdown, !.subscription = FALSE]

\* channel.shutdownWithError(err)
shutdownWithError(c) == [disconnect(c) EXCEPT !.error = TRUE]

\* getErrorChannel('invalid scope', id, scopeId, namespace, path): a channel
\* that is no CentrifugeLiveChannel, shut down, with the error in its status
getErrorChannel(a) ==
    [ id |-> IdOf(a), scope |-> a.scopeId, namespace |-> a.namespace, path |-> a.path,
      state |-> Shutdown, error |-> TRUE ]

\* a shutdownCallback that leaves the registry alone
shutdownCallbackKeeps(id) == open

\* channel.shutdownCallback = () => { this.open.delete(id) }
shutdownCallback(id) == [open EXCEPT ![id] = 0]

\* a failed initialization that leaves the registry alone
CatchKeeps(id) == open

\* the catch callback's this.open.delete(id), after shutdownWithError ran the
\* shutdownCallback
CatchDelete(id) == [shutdownCallback(id) EXCEPT ![id] = 0]

\* an initChannel that never waits for the connection
MustWaitNever == FALSE

\* if (!this.centrifuge.isConnected()) await this.connectionBlocker
MustWait == ~connected

\* What the environment does during one run of initChannel's last part:
\* canPublish is what config.canPublish() does when it is defined ("true",
\* "false" or "throws"), subscribeThrows whether centrifuge.subscribe throws.
Outcomes(config) ==
    { o \in [canPublish : {"absent", "true", "false", "throws"}, subscribeThrows : BOOLEAN] :
        /\ (o.canPublish = "absent") = (config # "canPublish")
        /\ o.canPublish = "throws" => ~o.subscribeThrows }

\* publish bound whenever the config defines canPublish, whatever it answers
BindPublishIfDefined(config, answer) == config = "canPublish"

\* if (config.canPublish && config.canPublish()) channel.publish = ...
BindPublish(config, answer) == config = "canPublish" /\ answer = "true"

\* what the canPublish test of the config evaluated to
CanPublishAnswer(config, answer) ==
    IF config = "canPublish" THEN answer ELSE "absent"

\* an initChannel that subscribes before it tests canPublish
AttachSubscribeFirst(c, outcome) ==
    IF outcome.subscribeThrows
    THEN [c EXCEPT !.pc = "rejected"]
    ELSE IF outcome.canPublish = "throws"
    THEN [c EXCEPT !.subscription = TRUE, !.pc = "rejected", !.canPublish = "throws"]
    ELSE [c EXCEPT !.canPublish = CanPublishAnswer(c.config, outcome.canPublish),
                   !.publish = BindPublish(c.config, outcome.canPublish),
                   !.subscription = TRUE, !.pc = "fulfilled"]

\* initChannel from the canPublish test to its return
Attach(c, outcome) ==
    IF outcome.canPublish = "throws"
    THEN [c EXCEPT !.pc = "rejected", !.canPublish = "throws"]
    ELSE LET bound == [c EXCEPT !.canPublish = CanPublishAnswer(c.config, outcome.canPublish),
                                !.publish = BindPublish(c.config, outcome.canPublish)]
         IN  IF outcome.subscribeThrows
             THEN [bound EXCEPT !.pc = "rejected"]
             ELSE [bound EXCEPT !.subscription = TRUE, !.pc = "fulfilled"]

\* an initChannel without the test of the scope support
ResolveUnchecked(c, outcome) ==
    IF getChannelConfig(c.path) = "none"
    THEN [c EXCEPT !.pc = "rejected"]
    ELSE LET initalized == [c EXCEPT !.config = getChannelConfig(c.path)]
         IN  IF MustWait
             THEN [initalized EXCEPT !.pc = "connectionBlocker"]
             ELSE Attach(initalized, outcome)

\* initChannel from the result of getChannelSupport to the next await, or to
\* its end when the transport is connected
Resolve(c, outcome) ==
    IF ~getChannelSupport(c.namespace) \/ getChannelConfig(c.path) = "none"
    THEN [c EXCEPT !.pc = "rejected"]
    ELSE LET initalized == [c EXCEPT !.config = getChannelConfig(c.path)]
         IN  IF MustWait
             THEN [initalized EXCEPT !.pc = "connectionBlocker"]
             ELSE Attach(initalized, outcome)

\* Callbacks of the transport are tasks: they run when no continuation is
\* queued as a microtask (a rejected initChannel whose catch has not run, a
\* continuation of an await on the resolved connectionBlocker).
MicrotasksDrained ==
    \A i \in Instances :
        /\ channels[i].pc # "rejected"
        /\ ~(channels[i].pc = "connectionBlocker" /\ connectionBlocker = "resolved")

----------------------------------------------------------------------------
Init ==
    /\ open = [i \in Ids |-> 0]
    /\ channels = <<>>
    /\ connected \in BOOLEAN
    /\ connectionState = connected
    /\ connectionBlocker = (IF connected THEN "resolved" ELSE "pending")
    /\ afterDisconnect = {}
    /\ logged = {}

\* a getChannel that validates the namespace and the path first
getChannelReturnValidating(a) ==
    IF open[IdOf(a)] # 0
    THEN [kind |-> "channel", ch |-> open[IdOf(a)], fresh |-> FALSE]
    ELSE IF ~scopes(a.scopeId) \/ Malformed(a)
    THEN [kind |-> "error", ch |-> 0, fresh |-> FALSE]
    ELSE [kind |-> "channel", ch |-> Len(channels) + 1, fresh |-> TRUE]

\* What getChannel(scopeId, namespace, path) returns: the registered channel,
\* an error channel, or the channel it constructs (fresh)
getChannelReturn(a) ==
    IF open[IdOf(a)] # 0
    THEN [kind |-> "channel", ch |-> open[IdOf(a)], fresh |-> FALSE]
    ELSE IF ~scopes(a.scopeId)
    THEN [kind |-> "error", ch |-> 0, fresh |-> FALSE]
    ELSE [kind |-> "channel", ch |-> Len(channels) + 1, fresh |-> TRUE]

\* getChannel(scopeId, namespace, path), up to the first await of initChannel
getChannel(a, limit) ==
    /\ afterDisconnect' = afterDisconnect \ {IdOf(a)}
    /\ UNCHANGED <<logged, connected, connectionState, connectionBlocker>>
    /\ IF getChannelReturn(a).fresh
       THEN /\ Len(channels) < limit
            /\ channels' = Append(channels, NewChannel(a))
            /\ open' = [open EXCEPT ![IdOf(a)] = Len(channels) + 1]
       ELSE UNCHANGED <<open, channels>>

\* a caller runs disconnect() on a channel it holds
ChannelDisconnect(i) ==
    /\ channels' = [channels EXCEPT ![i] = disconnect(@)]
    /\ open' = shutdownCallback(channels[i].id)
    /\ afterDisconnect' = afterDisconnect \cup {channels[i].id}
    /\ UNCHANGED <<logged, connected, connectionState, connectionBlocker>>

\* initializations run one after the other: a channel continues only when
\* every channel constructed before it is past its first await
SupportSettledInOrder(i) ==
    /\ channels[i].pc = "getChannelSupport"
    /\ \A k \in 1..(i - 1) : channels[k].pc # "getChannelSupport"
    /\ \/ channels' = [channels EXCEPT ![i].pc = "rejected"]
       \/ \E outcome \in Outcomes(getChannelConfig(channels[i].path)) :
              channels' = [channels EXCEPT ![i] = Resolve(@, outcome)]
    /\ UNCHANGED <<logged, open, connected, connectionState, connectionBlocker,
                   afterDisconnect>>

\* scope.getChannelSupport settles: initChannel continues after its first await
SupportSettled(i) ==
    /\ channels[i].pc = "getChannelSupport"
    /\ \/ channels' = [channels EXCEPT ![i].pc = "rejected"]
       \/ \E outcome \in Outcomes(getChannelConfig(channels[i].path)) :
              channels' = [channels EXCEPT ![i] = Resolve(@, outcome)]
    /\ UNCHANGED <<logged, open, connected, connectionState, connectionBlocker,
                   afterDisconnect>>

\* connectionBlocker is resolved: initChannel continues after its second await
BlockerSettled(i) ==
    /\ channels[i].pc = "connectionBlocker"
    /\ connectionBlocker = "resolved"
    /\ \E outcome \in Outcomes(channels[i].config) :
           channels' = [channels EXCEPT ![i] = Attach(@, outcome)]
    /\ UNCHANGED <<logged, open, connected, connectionState, connectionBlocker,
                   afterDisconnect>>

\* a catch callback that swallows the error and leaves the channel as it is
CatchInitSwallows(i) ==
    /\ channels[i].pc = "rejected"
    /\ channels' = [channels EXCEPT ![i].pc = "caught"]
    /\ UNCHANGED <<logged, open, connected, connectionState, connectionBlocker,
                   afterDisconnect>>

\* this.initChannel(scope, channel).catch(err => { ... })
CatchInit(i) ==
    /\ channels[i].pc = "rejected"
    /\ channels' = [channels EXCEPT ![i] = [shutdownWithError(@) EXCEPT !.pc = "caught"]]
    /\ open' = CatchDelete(channels[i].id)
    /\ afterDisconnect' = afterDisconnect \cup {channels[i].id}
    /\ UNCHANGED <<logged, connected, connectionState, connectionBlocker>>

\* an onConnect that does not publish the new connection state
onConnectSilent ==
    /\ ~connected
    /\ MicrotasksDrained
    /\ connected' = TRUE
    /\ connectionBlocker' = "resolved"
    /\ channels' = [i \in Instances |-> [channels[i] EXCEPT !.awaitsConnect = FALSE]]
    /\ UNCHANGED <<logged, open, afterDisconnect, connectionState>>

\* the transport connects: connectListener and onConnect
onConnect ==
    /\ ~connected
    /\ MicrotasksDrained
    /\ connected' = TRUE
    /\ connectionBlocker' = "resolved"
    /\ connectionState' = TRUE
    /\ channels' = [i \in Instances |-> [channels[i] EXCEPT !.awaitsConnect = FALSE]]
    /\ UNCHANGED <<logged, open, afterDisconnect>>

\* the transport loses its link: the unsubscribe event of every subscription,
\* then onDisconnect
onDisconnect ==
    /\ connected
    /\ MicrotasksDrained
    /\ connected' = FALSE
    /\ connectionState' = FALSE
    /\ channels' = [i \in Instances |->
                      IF channels[i].subscription /\ channels[i].state = Connected
                      THEN [channels[i] EXCEPT !.state = Disconnected]
                      ELSE channels[i]]
    /\ UNCHANGED <<logged, open, connectionBlocker, afterDisconnect>>

\* the server confirms a subscription: the subscribe event of the channel
SubscribeSuccess(i) ==
    /\ connected
    /\ MicrotasksDrained
    /\ channels[i].subscription
    /\ channels[i].state \in {Pending, Disconnected}
    /\ channels' = [channels EXCEPT ![i].state = Connected]
    /\ UNCHANGED <<logged, open, connected, connectionState, connectionBlocker,
                   afterDisconnect>>

\* The channel ids of the publications the server pushes: the id of an
\* address the callers open channels for, and an id nobody asks for.
Publications ==
    { IdOf(Addr(Grafana, <<"a">>, <<"a">>)), IdOf(Addr(Grafana, <<"a">>, <<"b">>)) }

\* an onServerSideMessage that takes a publication for the end of its channel
\* and drops the registry entry
onServerSideMessageRouted(context) ==
    /\ logged' = logged \cup {context}
    /\ open' = [open EXCEPT ![context] = 0]
    /\ UNCHANGED <<channels, connected, connectionState, connectionBlocker,
                   afterDisconnect>>

\* onServerSideMessage(context): console.log and nothing else
onServerSideMessage(context) ==
    /\ logged' = logged \cup {context}
    /\ UNCHANGED <<open, channels, connected, connectionState, connectionBlocker,
                   afterDisconnect>>

Next ==
    \/ \E a \in Addresses : getChannel(a, MaxChannels)
    \/ \E i \in Instances : ChannelDisconnect(i)
    \/ \E i \in Instances : SupportSettled(i)
    \/ \E i \in Instances : BlockerSettled(i)
    \/ \E i \in Instances : CatchInit(i)
    \/ \E i \in Instances : SubscribeSuccess(i)
    \/ onConnect
    \/ onDisconnect

Spec == Init /\ [][Next]_vars

\* The same service when its callers ask for one address only and call
\* disconnect() on a channel at most once.
NextSame ==
    \/ \E a \in SameAddresses : getChannel(a, MaxSame)
    \/ \E i \in Instances : channels[i].state # Shutdown /\ ChannelDisconnect(i)
    \/ \E i \in Instances : SupportSettled(i)
    \/ \E i \in Instances : BlockerSettled(i)
    \/ \E i \in Instances : CatchInit(i)
    \/ \E i \in Instances : SubscribeSuccess(i)
    \/ onConnect
    \/ onDisconnect

SpecSame == Init /\ [][NextSame]_vars

\* The same service under fair scheduling, its callers calling disconnect()
\* on a channel at most once.  A continuation that is queued as
\* a microtask runs (the catch callback, the continuation after the resolved
\* connectionBlocker); the promise of getChannelSupport settles; a transport
\* that is not connected connects; a subscription that is attached is
\* answered, although the link may be lost again and again meanwhile.
NextLive ==
    \/ \E a \in LiveAddresses : getChannel(a, MaxLive)
    \/ \E i \in Instances : channels[i].state # Shutdown /\ ChannelDisconnect(i)
    \/ \E i \in Instances : SupportSettled(i)
    \/ \E i \in Instances : BlockerSettled(i)
    \/ \E i \in Instances : CatchInit(i)
    \/ \E i \in Instances : SubscribeSuccess(i)
    \/ onConnect
    \/ onDisconnect

Fairness ==
    /\ \A i \in 1..MaxLive : WF_vars(i \in Instances /\ SupportSettled(i))
    /\ \A i \in 1..MaxLive : WF_vars(i \in Instances /\ BlockerSettled(i))
    /\ \A i \in 1..MaxLive : WF_vars(i \in Instances /\ CatchInit(i))
    /\ \A i \in 1..MaxLive : SF_vars(i \in Instances /\ SubscribeSuccess(i))
    /\ WF_vars(onConnect)

SpecLive == Init /\ [][NextLive]_vars /\ Fairness

\* The same service when the server pushes server-side publications too.
NextPush ==
    \/ \E a \in LiveAddresses : getChannel(a, MaxLive)
    \/ \E i \in Instances : channels[i].state # Shutdown /\ ChannelDisconnect(i)
    \/ \E i \in Instances : SupportSettled(i)
    \/ \E i \in Instances : BlockerSettled(i)
    \/ \E i \in Instances : CatchInit(i)
    \/ \E i \in Instances : SubscribeSuccess(i)
    \/ onConnect
    \/ onDisconnect
    \/ \E context \in Publications : onServerSideMessage(context)

SpecPush == Init /\ [][NextPush]_vars

----------------------------------------------------------------------------
\* Vocabulary of the properties

AddrOf(c) == Addr(c.scope, c.namespace, c.path)

\* the addresses of a known scope, and those of them with a malformed segment
KnownAddresses == { a \in Addresses : scopes(a.scopeId) }

MalformedAddresses == { a \in KnownAddresses : Malformed(a) }

\* the channel object a call getChannel(a) made now would hand to its caller
ReturnedChannel(a) ==
    IF getChannelReturn(a).kind = "error" THEN getErrorChannel(a)
    ELSE IF getChannelReturn(a).fresh THEN NewChannel(a)
    ELSE channels[getChannelReturn(a).ch]

\* Longest segment of the triples the id format is compared on.
MaxLen == 2

Segments == UNION { [1..n -> {"a", "b"}] : n \in 1..MaxLen }

ValidTriples ==
    { Addr(s, n, p) : s \in LiveChannelScope, n \in Segments, p \in Segments }

----------------------------------------------------------------------------
\* C1: two getChannel(A) calls with no shutdown of the channel between them
\* return the identical instance and the second starts no initialization:
\* a call for the address of any channel that is not shut down returns that
\* channel and constructs nothing.
C1_SameInstance ==
    \A i \in Instances :
        channels[i].state # Shutdown =>
            getChannelReturn(AddrOf(channels[i])) =
                [kind |-> "channel", ch |-> i, fresh |-> FALSE]

\* C2: for each id at most one instance is not in Shutdown, and at most one
\* instance holds a transport subscription.
C2_AtMostOnePerId ==
    \A i, j \in Instances :
        (i # j /\ channels[i].id = channels[j].id) =>
            /\ channels[i].state = Shutdown \/ channels[j].state = Shutdown
            /\ ~(channels[i].subscription /\ channels[j].subscription)

C5_NoSubscriptionBeforeConnect ==
    \A i \in Instances : channels[i].awaitsConnect => ~channels[i].subscription

\* C5 amended: as long as the transport has never connected (connectionBlocker
\* is pending) no channel gets past the wait or holds a subscription; the
\* first connect event resolves the one blocker all of them wait on, and it
\* stays resolved.
C5_FirstConnectReleasesAll ==
    /\ [](connectionBlocker = "pending" =>
            \A i \in Instances :
                /\ ~channels[i].subscription
                /\ channels[i].pc # "fulfilled"
                /\ channels[i].awaitsConnect)
    /\ [][(~connected /\ connected') => connectionBlocker' = "resolved"]_vars
    /\ [][connectionBlocker = "resolved" => connectionBlocker' = "resolved"]_vars

\* C5 witness: two channels created before the first connect, both resolved
\* and both held at the wait for the connection.
C5_Witness ==
    /\ connectionBlocker = "pending"
    /\ \E i, j \in Instances :
        /\ i # j
        /\ channels[i].pc = "connectionBlocker"
        /\ channels[j].pc = "connectionBlocker"

\* C6: when the config has no canPublish, or canPublish() answered false when
\* initChannel evaluated it, publish is absent, in every later state too.
C6_PublishAbsent ==
    \A i \in Instances :
        /\ channels[i].canPublish \in {"absent", "false"} => ~channels[i].publish
        /\ channels[i].config # "canPublish" => ~channels[i].publish

\* C6 witness: canPublish() answered false for one channel, whose
\* initialization completed without publish, and true for a later channel.
C6_Witness ==
    \E i, j \in Instances :
        /\ i < j
        /\ channels[i].canPublish = "false" /\ ~channels[i].publish
        /\ channels[i].pc = "fulfilled"
        /\ channels[j].publish

\* C7: a channel whose initialization failed is shut down with an error, is
\* not what the registry maps its id to, and getChannel for its address
\* returns another instance: a new one, or a later one registered since.
C7_FailedIsDeregistered ==
    /\ \A i \in Instances :
        channels[i].pc = "caught" =>
            /\ channels[i].state = Shutdown
            /\ channels[i].error
            /\ open[channels[i].id] # i
            /\ getChannelReturn(AddrOf(channels[i])).kind = "channel"
            /\ getChannelReturn(AddrOf(channels[i])).ch > i
    /\ \A i \in Instances :
        (~getChannelSupport(channels[i].namespace)
            \/ getChannelConfig(channels[i].path) = "none") =>
                channels[i].pc \in {"getChannelSupport", "rejected", "caught"}
    /\ \A i \in Instances :
        channels[i].pc = "rejected" => ~channels[i].subscription

\* C7 witness: an initialization failed and a later getChannel for the address
\* made a new instance whose initialization is running.
C7_Witness ==
    \E i, j \in Instances :
        /\ i < j
        /\ AddrOf(channels[i]) = AddrOf(channels[j])
        /\ channels[i].pc = "caught"
        /\ open[channels[j].id] = j
        /\ channels[j].pc = "getChannelSupport"

\* C8: for an invalid scope, namespace or path the channel getChannel returns
\* is a shutdown channel with the error in its status; for an invalid scope
\* nothing is registered and no initialization is started.
C8_ShutdownChannelReturned ==
    /\ \A a \in Addresses :
         ~scopes(a.scopeId) =>
            /\ ReturnedChannel(a).state = Shutdown /\ ReturnedChannel(a).error
            /\ open[IdOf(a)] = 0
            /\ \A i \in Instances : channels[i].scope # a.scopeId
    /\ \A i \in Instances :
         (~getChannelSupport(channels[i].namespace)
             \/ getChannelConfig(channels[i].path) = "none") =>
            channels[i].state = Shutdown /\ channels[i].error

IdDeterminesTriple ==
    \A a, b \in ValidTriples : IdOf(a) = IdOf(b) => a = b

C10_IdInjective ==
    /\ IdDeterminesTriple
    /\ \A a \in Addresses :
         (scopes(a.scopeId) /\ ~Malformed(a)) =>
            /\ a \in ValidTriples
            /\ AddrOf(ReturnedChannel(a)) = a

\* C10 witness: two valid addresses are registered at once, each with its own
\* channel.
C10_Witness ==
    \E i, j \in Instances :
        /\ i # j
        /\ AddrOf(channels[i]) # AddrOf(channels[j])
        /\ ~Malformed(AddrOf(channels[i])) /\ ~Malformed(AddrOf(channels[j]))
        /\ getChannelReturn(AddrOf(channels[i])).ch = i
        /\ getChannelReturn(AddrOf(channels[j])).ch = j

\* C11: the latest value of the connection-state observable is what
\* isConnected() answered at construction until a transport callback runs,
\* then true after a connect callback and false after a disconnect callback;
\* no other step (getChannel, a step of an initialization, the catch callback,
\* disconnect() of a channel, a subscribe event) changes it.
C11_ConnectionStateFollowsTransport ==
    /\ [](connectionState = connected)
    /\ [][/\ onConnect => connectionState' = TRUE
          /\ onDisconnect => connectionState' = FALSE
          /\ connectionState' # connectionState => onConnect \/ onDisconnect]_vars

\* C11 witness: the transport has connected and then lost its link, with a
\* channel disconnected by its caller and another one whose initialization
\* failed; the observable is false.
C11_Witness ==
    /\ connectionBlocker = "resolved" /\ ~connected /\ ~connectionState
    /\ \E i, j \in Instances :
        /\ channels[i].state = Shutdown /\ ~channels[i].error
        /\ channels[j].pc = "caught"

\* C12: when disconnect() ran on a channel whose initialization was in flight,
\* every later step of that initialization (a continuation after an await,
\* the catch callback) leaves the channel in Shutdown, attaches no
\* subscription to it, binds no publish to it and leaves the registry entries
\* of the other instances alone.
C12_LateContinuationDiscarded ==
    [][\A i \in Instances :
         (channels[i].state = Shutdown /\ channels'[i].pc # channels[i].pc) =>
            /\ channels'[i].state = Shutdown
            /\ ~channels'[i].subscription
            /\ channels'[i].publish = channels[i].publish
            /\ \A id \in Ids : open[id] # i => open'[id] = open[id]]_vars

\* C13 as stated: every channel getChannel constructed is eventually Connected
\* or shut down with an error.
C13_ConnectedOrError ==
    \A i \in 1..MaxLive :
        (i \in Instances) ~>
            (i \in Instances /\
                (\/ channels[i].state = Connected
                 \/ channels[i].state = Shutdown /\ channels[i].error))

\* C13 amended: every channel getChannel constructed eventually leaves
\* Pending for Connected or Shutdown, and its initialization ends (fulfilled,
\* or failed and handled).  Shutdown with no error is entered only by a
\* disconnect() of a caller; a failed initialization ends in Shutdown with the
\* error.
C13_InitEnds ==
    /\ \A i \in 1..MaxLive :
        (i \in Instances) ~>
            (i \in Instances /\ channels[i].state \in {Connected, Shutdown}
                /\ channels[i].pc \in {"fulfilled", "caught"})
    /\ [](\A i \in Instances :
            channels[i].pc = "caught" => channels[i].state = Shutdown /\ channels[i].error)
    /\ [][\A i \in Instances :
            (channels[i].state # Shutdown /\ channels'[i].state = Shutdown
                /\ ~channels'[i].error) => ChannelDisconnect(i)]_vars

\* C13 witness: one channel is Connected after the whole of its
\* initialization, another one is shut down with the error of its failed one.
C13_Witness ==
    \E i, j \in Instances :
        /\ channels[i].state = Connected /\ channels[i].pc = "fulfilled"
        /\ channels[j].pc = "caught" /\ channels[j].state = Shutdown /\ channels[j].error

C15_RegistryExact ==
    /\ [](\A id \in Ids :
            open[id] # 0 =>
                /\ channels[open[id]].id = id
                /\ channels[open[id]].state # Shutdown)
    /\ [](\A i \in Instances :
            channels[i].state # Shutdown => open[channels[i].id] = i)
    /\ [][\A id \in Ids :
            (open[id] # 0 /\ open'[id] # open[id]) =>
                /\ channels[open[id]].state # Shutdown
                /\ channels'[open[id]].state = Shutdown]_vars

\* C16: the states of one channel are ordered: a channel is Pending when it
\* is constructed, no channel returns to Pending, and a channel in Shutdown
\* never changes its state again and gets no new transport subscription.
C16_StatesOrdered ==
    /\ [][Len(channels') > Len(channels) =>
            channels'[Len(channels')].state = Pending]_vars
    /\ [][\A i \in Instances :
            channels'[i].state = Pending => channels[i].state = Pending]_vars
    /\ [][\A i \in Instances :
            channels[i].state = Shutdown =>
                /\ channels'[i].state = Shutdown
                /\ channels'[i].subscription => channels[i].subscription]_vars

\* C17: while the initialization of a channel is suspended at an await,
\* getChannel for an id that is not registered can run: it constructs a
\* Pending channel, registers it and leaves the other channels alone; and any
\* other channel can take the next step of its own initialization, leaving
\* the suspended one alone: continue after its scope support has settled
\* (with the subscription attached when support and config exist and the
\* transport is connected), continue after the resolved connectionBlocker,
\* and become Connected when its subscription is answered.
Suspended(i) == channels[i].pc \in {"getChannelSupport", "connectionBlocker"}

C17_Independent ==
    \A i \in Instances :
        Suspended(i) =>
            /\ \A a \in KnownAddresses :
                 (open[IdOf(a)] = 0 /\ Len(channels) < MaxChannels) =>
                    ENABLED (/\ getChannel(a, MaxChannels)
                             /\ open'[IdOf(a)] = Len(channels) + 1
                             /\ channels'[Len(channels) + 1].state = Pending
                             /\ \A k \in Instances : channels'[k] = channels[k])
            /\ \A j \in Instances \ {i} :
                 /\ channels[j].pc = "getChannelSupport" =>
                        ENABLED (SupportSettled(j) /\ channels'[i] = channels[i])
                 /\ (/\ channels[j].pc = "getChannelSupport"
                     /\ getChannelSupport(channels[j].namespace)
                     /\ getChannelConfig(channels[j].path) # "none"
                     /\ connected) =>
                        ENABLED (/\ SupportSettled(j)
                                 /\ channels'[j].subscription
                                 /\ channels'[i] = channels[i])
                 /\ (channels[j].pc = "connectionBlocker"
                        /\ connectionBlocker = "resolved") =>
                        ENABLED (/\ BlockerSettled(j)
                                 /\ channels'[j].subscription
                                 /\ channels'[i] = channels[i])
                 /\ (/\ channels[j].subscription
                     /\ channels[j].state = Pending
                     /\ connected
                     /\ MicrotasksDrained) =>
                        ENABLED (/\ SubscribeSuccess(j)
                                 /\ channels'[j].state = Connected
                                 /\ channels'[i] = channels[i])

\* C17 witness: a channel is still suspended at the resolution of its scope
\* support while a channel constructed after it, for another id, has gone
\* through its whole initialization and is Connected.
C17_Witness ==
    \E i, j \in Instances :
        /\ i < j
        /\ channels[i].id # channels[j].id
        /\ channels[i].pc = "getChannelSupport" /\ channels[i].state = Pending
        /\ open[channels[j].id] = j
        /\ channels[j].pc = "fulfilled" /\ channels[j].state = Connected

\* C18: a step in which onServerSideMessage logs a publication, for the id of
\* an open channel or for any other id, changes neither the registry, nor
\* any channel (its state and its subscription included), nor the
\* connection-state observable, nor the connection; and the handler can run
\* in every state.
C18_PublicationChangesNothing ==
    /\ [](\A context \in Publications : ENABLED onServerSideMessage(context))
    /\ [][logged' # logged =>
            UNCHANGED <<open, channels, connectionState, connected,
                        connectionBlocker>>]_vars

\* C18 witness: publications for both ids were logged; the channel of one of
\* them is registered and Connected, the other id has no channel at all.
C18_Witness ==
    /\ logged = Publications
    /\ \E i \in Instances :
        /\ channels[i].id \in logged
        /\ open[channels[i].id] = i
        /\ channels[i].state = Connected /\ channels[i].subscription
    /\ \E context \in logged :
        open[context] = 0 /\ \A i \in Instances : channels[i].id # context

\* C19: the initialization of an instance runs once.  The transport subscribe
\* of an instance happens in the one step that ends its initialization with
\* success, which never comes again; the scope support and the config of the
\* path were found before it, and the canPublish test was made and publish
\* bound, when permitted, before it.  A channel whose support or config is
\* absent, or whose canPublish test threw, never has a subscription.
C19_SubscribeOnce ==
    /\ [](\A i \in Instances :
            /\ (~getChannelSupport(channels[i].namespace)
                    \/ getChannelConfig(channels[i].path) = "none") =>
                        ~channels[i].subscription
            /\ channels[i].canPublish = "throws" => ~channels[i].subscription
            /\ channels[i].subscription => channels[i].pc = "fulfilled")
    /\ [][\A i \in Instances :
            /\ (~channels[i].subscription /\ channels'[i].subscription) =>
                    /\ channels[i].pc \in {"getChannelSupport", "connectionBlocker"}
                    /\ channels'[i].pc = "fulfilled"
                    /\ getChannelSupport(channels[i].namespace)
                    /\ channels'[i].config = getChannelConfig(channels[i].path)
                    /\ channels'[i].config # "none"
                    /\ channels'[i].canPublish \in {"absent", "true", "false"}
                    /\ channels'[i].publish = (channels'[i].canPublish = "true")
            /\ channels[i].pc \in {"fulfilled", "caught"} =>
                    channels'[i].pc = channels[i].pc
            /\ channels[i].pc = "rejected" =>
                    channels'[i].pc \in {"rejected", "caught"}
            /\ channels[i].pc = "connectionBlocker" =>
                    channels'[i].pc # "getChannelSupport"]_vars

\* C19 witness: one initialization ended with publish bound and the
\* subscription attached, another one failed in its canPublish test.
C19_Witness ==
    \E i, j \in Instances :
        /\ channels[i].pc = "fulfilled"
        /\ channels[i].subscription /\ channels[i].publish
        /\ channels[j].canPublish = "throws" /\ channels[j].pc = "caught"

====
